---- MODULE Spec2Model ----
(***************************************************************************)
(* Model of the special-offer pricing utility: calculateOfferPricing and   *)
(* calculateCartTotal.  Amounts are exact integers (whole currency units); *)
(* the quotient total / quantity is kept as an exact fraction, with the    *)
(* IEEE outcomes NaN (0 / 0) and Infinity (x / 0) kept apart from it.      *)
(***************************************************************************)
EXTENDS Integers, Sequences, FiniteSets, TLC

VARIABLES product, quantity, offerType, pricing, cartItems, cartResult

vars == <<product, quantity, offerType, pricing, cartItems, cartResult>>

(* ---------------------------- bounds ----------------------------------- *)

MaxQuantity == 7

MaxCartLen == 3

(* ------------------------ JavaScript values ---------------------------- *)

\* A JavaScript value of a price-like field: undefined, a number or a string.
Undefined == [t |-> "undefined", n |-> 0, s |-> <<>>]

Num(n) == [t |-> "number", n |-> n, s |-> <<>>]

Str(s) == [t |-> "string", n |-> 0, s |-> s]

\* The value of an omitted argument or field that holds a string otherwise.
UndefinedArg == "undefined"

NoResult == [none |-> TRUE]

Digits == <<"0", "1", "2", "3", "4", "5", "6", "7", "8", "9">>

IsDigit(c) == \E d \in 1..10 : Digits[d] = c

DigitVal(c) == (CHOOSE d \in 1..10 : Digits[d] = c) - 1

RECURSIVE SkipSpaces(_)
SkipSpaces(s) ==
    IF s # <<>> /\ Head(s) = " " THEN SkipSpaces(Tail(s)) ELSE s

\* Value of the longest prefix of digits of s, continuing from acc.
RECURSIVE LeadingDigits(_, _)
LeadingDigits(s, acc) ==
    IF s # <<>> /\ IsDigit(Head(s))
    THEN LeadingDigits(Tail(s), acc * 10 + DigitVal(Head(s)))
    ELSE acc

NaN == [k |-> "nan", num |-> 0, den |-> 1]

Fin(n) == [k |-> "fin", num |-> n, den |-> 1]

\* parseFloat of a string: leading blanks are skipped, an optional sign and
\* the longest run of digits are read, anything after it is ignored; with no
\* digit the result is NaN.
ParseFloatStr(s) ==
    LET t    == SkipSpaces(s)
        neg  == t # <<>> /\ Head(t) = "-"
        body == IF t # <<>> /\ Head(t) \in {"-", "+"} THEN Tail(t) ELSE t
    IN  IF body = <<>> \/ ~IsDigit(Head(body))
        THEN NaN
        ELSE Fin(IF neg THEN 0 - LeadingDigits(body, 0) ELSE LeadingDigits(body, 0))

\* parseFloat(v): the argument is converted to a string and parsed.
parseFloat(v) ==
    CASE v.t = "number"    -> Fin(v.n)
      [] v.t = "string"    -> ParseFloatStr(v.s)
      [] v.t = "undefined" -> NaN

\* parseFloat(v) || 0 : NaN and 0 are falsy.
ParseFloatOr0(v) ==
    LET f == parseFloat(v) IN IF f.k = "nan" \/ f.num = 0 THEN 0 ELSE f.num

\* v || 0 for a field that is a number or missing.
ValueOr0(v) == IF v.t = "number" /\ v.n # 0 THEN v.n ELSE 0

(* ------------------------ number arithmetic ---------------------------- *)

Abs(x) == IF x < 0 THEN 0 - x ELSE x

RECURSIVE Gcd(_, _)
Gcd(a, b) == IF b = 0 THEN a ELSE Gcd(b, a % b)

\* Math.floor(a / b) for b # 0.
FloorDiv(a, b) ==
    LET q == Abs(a) \div Abs(b)
        exact == Abs(a) % Abs(b) = 0
    IN  IF (a < 0) = (b < 0) \/ a = 0 THEN q
        ELSE IF exact THEN 0 - q ELSE 0 - q - 1

\* a % b of JavaScript for b # 0: the sign follows the dividend.
JsRem(a, b) ==
    LET r == Abs(a) % Abs(b) IN IF a < 0 THEN 0 - r ELSE r

\* a / b of JavaScript as an exact fraction in lowest terms, den > 0.
JsDiv(a, b) ==
    IF b = 0
    THEN IF a = 0 THEN NaN ELSE [k |-> "inf", num |-> IF a < 0 THEN -1 ELSE 1, den |-> 1]
    ELSE LET g == Gcd(Abs(a), Abs(b))
             sgn == IF b < 0 THEN -1 ELSE 1
         IN  [k |-> "fin", num |-> sgn * (a \div g), den |-> Abs(b) \div g]

(* ---------------------- calculateOfferPricing -------------------------- *)

\* An absent specialOffer (product.specialOffer is undefined).
NoOffer == [present |-> FALSE, quantity |-> Undefined, offerPricePerUnit |-> Undefined]

Offer(q, p) == [present |-> TRUE, quantity |-> q, offerPricePerUnit |-> p]

\* const regularPrice = parseFloat(product.price) || 0
RegularPrice(p) == ParseFloatOr0(p.price)

\* const batchSize = product.specialOffer?.quantity || 0
BatchSize(p) ==
    IF p.specialOffer.present THEN ValueOr0(p.specialOffer.quantity) ELSE 0

\* const offerPricePerUnit = parseFloat(product.specialOffer?.offerPricePerUnit) || 0
OfferPricePerUnit(p) ==
    IF p.specialOffer.present THEN ParseFloatOr0(p.specialOffer.offerPricePerUnit) ELSE 0

\* The default parameter offerType = 'regular' replaces an omitted argument.
DefaultOfferType(ot) == IF ot = UndefinedArg THEN "regular" ELSE ot

IsFlatModeNoPriceTest(p, ot) ==
    \/ ~p.specialOffer.present
    \/ BatchSize(p) = 0
    \/ ot = "regular"

\* !product.specialOffer || !batchSize || !offerPricePerUnit || offerType === 'regular'
IsFlatMode(p, ot) ==
    \/ ~p.specialOffer.present
    \/ BatchSize(p) = 0
    \/ OfferPricePerUnit(p) = 0
    \/ ot = "regular"

FlatResult(regularPrice, q) ==
    [subtotal              |-> regularPrice * q,
     discount              |-> 0,
     total                 |-> regularPrice * q,
     itemsAtOfferPrice     |-> 0,
     itemsAtRegularPrice   |-> q,
     effectivePricePerUnit |-> Fin(regularPrice),
     breakdown             |-> <<>>]

FullBatches(q, batchSize) == FloorDiv(q, batchSize)

RemainingItems(q, batchSize) == JsRem(q, batchSize)

ItemsAtOfferPriceOneBatch(fullBatches, batchSize) ==
    IF fullBatches > 0 THEN batchSize ELSE 0

ItemsAtOfferPrice(fullBatches, batchSize) == fullBatches * batchSize

OfferTotalPerBatch(itemsAtOfferPrice, offerPricePerUnit) ==
    IF itemsAtOfferPrice = 0 THEN 0 ELSE offerPricePerUnit

OfferTotal(itemsAtOfferPrice, offerPricePerUnit) ==
    itemsAtOfferPrice * offerPricePerUnit

DiscountSwapped(subtotal, total) == total - subtotal

Discount(subtotal, total) == subtotal - total

BreakdownEntry(type, q, pricePerUnit, total) ==
    [type |-> type, quantity |-> q, pricePerUnit |-> pricePerUnit, total |-> total]

BreakdownRegularFirst(nOffer, nRegular, offerPrice, regularPrice, offerTotal, regularTotal) ==
    (IF nRegular > 0
     THEN <<BreakdownEntry("regular", nRegular, regularPrice, regularTotal)>>
     ELSE <<>>)
    \o
    (IF nOffer > 0
     THEN <<BreakdownEntry("offer", nOffer, offerPrice, offerTotal)>>
     ELSE <<>>)

Breakdown(nOffer, nRegular, offerPrice, regularPrice, offerTotal, regularTotal) ==
    (IF nOffer > 0
     THEN <<BreakdownEntry("offer", nOffer, offerPrice, offerTotal)>>
     ELSE <<>>)
    \o
    (IF nRegular > 0
     THEN <<BreakdownEntry("regular", nRegular, regularPrice, regularTotal)>>
     ELSE <<>>)

BatchResult(regularPrice, batchSize, offerPricePerUnit, q) ==
    LET fullBatches         == FullBatches(q, batchSize)
        remainingItems      == RemainingItems(q, batchSize)
        itemsAtOfferPrice   == ItemsAtOfferPrice(fullBatches, batchSize)
        itemsAtRegularPrice == remainingItems
        offerTotal          == OfferTotal(itemsAtOfferPrice, offerPricePerUnit)
        regularTotal        == itemsAtRegularPrice * regularPrice
        total               == offerTotal + regularTotal
        subtotal            == q * regularPrice
        discount            == Discount(subtotal, total)
    IN  [subtotal              |-> subtotal,
         discount              |-> discount,
         total                 |-> total,
         itemsAtOfferPrice     |-> itemsAtOfferPrice,
         itemsAtRegularPrice   |-> itemsAtRegularPrice,
         effectivePricePerUnit |-> JsDiv(total, q),
         breakdown             |-> Breakdown(itemsAtOfferPrice, itemsAtRegularPrice,
                                             offerPricePerUnit, regularPrice,
                                             offerTotal, regularTotal)]

calculateOfferPricing(p, q, otArg) ==
    LET ot == DefaultOfferType(otArg) IN
    IF IsFlatMode(p, ot)
    THEN FlatResult(RegularPrice(p), q)
    ELSE BatchResult(RegularPrice(p), BatchSize(p), OfferPricePerUnit(p), q)

(* ------------------------ calculateCartTotal --------------------------- *)

\* { ...item, pricing }: a new object with the item's fields and pricing.
Augmented(item, pr) ==
    [f \in (DOMAIN item) \cup {"pricing"} |->
        IF f = "pricing" THEN pr ELSE item[f]]

ItemPricingAsRegular(item) ==
    calculateOfferPricing(item, item.quantity, "regular")

\* calculateOfferPricing(item, item.quantity, item.offerType)
ItemPricing(item) ==
    calculateOfferPricing(item, item.quantity, item.offerType)

RECURSIVE RunningSumOfTotal(_, _, _)
RunningSumOfTotal(items, f, acc) ==
    IF items = <<>> THEN acc
    ELSE RunningSumOfTotal(Tail(items), f, acc + ItemPricing(Head(items)).total)

\* totalX += pricing.X, in the order of cartItems.map.
RECURSIVE RunningSum(_, _, _)
RunningSum(items, f, acc) ==
    IF items = <<>> THEN acc
    ELSE RunningSum(Tail(items), f, acc + ItemPricing(Head(items))[f])

calculateCartTotal(items) ==
    [subtotal |-> RunningSum(items, "subtotal", 0),
     discount |-> RunningSum(items, "discount", 0),
     total    |-> RunningSum(items, "total", 0),
     items    |-> [i \in 1..Len(items) |-> Augmented(items[i], ItemPricing(items[i]))]]

(* --------------------------- input domains ----------------------------- *)

\* Values a price field may hold: missing, numbers, numeric and other strings.
PriceValues ==
    {Undefined, Num(0), Num(100), Num(250), Num(-50),
     Str(<<"9", "0">>), Str(<<"a">>)}

\* Values the batch size may hold: missing or an integer.
BatchValues == {Undefined, Num(0), Num(-3), Num(2), Num(3)}

Offers == {NoOffer} \cup {Offer(b, p) : b \in BatchValues, p \in PriceValues}

Products == [price : PriceValues, specialOffer : Offers]

Quantities == 0..MaxQuantity

OfferTypes == {UndefinedArg, "regular", "bulk", "wholesale"}

CartEntry(id, price, offer, q, ot) ==
    [id |-> id, price |-> price, specialOffer |-> offer, quantity |-> q, offerType |-> ot]

CartEntries ==
    {CartEntry("p1", Num(100), NoOffer, 1, UndefinedArg),
     CartEntry("p2", Num(100), NoOffer, 7, "bulk"),
     CartEntry("p3", Num(100), Offer(Num(3), Num(80)), 7, "bulk"),
     CartEntry("p4", Num(100), Offer(Num(3), Num(80)), 7, UndefinedArg),
     CartEntry("p5", Str(<<"9", "0">>), Offer(Num(3), Num(80)), 1, "bulk"),
     CartEntry("p6", Num(100), Offer(Num(2), Num(250)), 7, "bulk")}

Carts == UNION {[1..n -> CartEntries] : n \in 0..MaxCartLen}

(* ---------------------------- behaviour -------------------------------- *)

Init ==
    /\ product \in Products
    /\ quantity \in Quantities
    /\ offerType \in OfferTypes
    /\ pricing = NoResult
    /\ cartItems = <<>>
    /\ cartResult = NoResult

\* One call calculateOfferPricing(product, quantity, offerType).
CallCalculateOfferPricing ==
    /\ pricing = NoResult
    /\ pricing' = calculateOfferPricing(product, quantity, offerType)
    /\ UNCHANGED <<product, quantity, offerType, cartItems, cartResult>>

Next == CallCalculateOfferPricing

Spec == Init /\ [][Next]_vars

InitCart ==
    /\ product = [price |-> Undefined, specialOffer |-> NoOffer]
    /\ quantity = 0
    /\ offerType = UndefinedArg
    /\ pricing = NoResult
    /\ cartItems \in Carts
    /\ cartResult = NoResult

\* One call calculateCartTotal(cartItems).
CallCalculateCartTotal ==
    /\ cartResult = NoResult
    /\ cartResult' = calculateCartTotal(cartItems)
    /\ UNCHANGED <<product, quantity, offerType, pricing, cartItems>>

NextCart == CallCalculateCartTotal

SpecCart == InitCart /\ [][NextCart]_vars

(* ----------------------------- properties ------------------------------ *)

Priced == pricing # NoResult

r == RegularPrice(product)

b == BatchSize(product)

p == OfferPricePerUnit(product)

\* The eligibility rule: an offer is present, batch size and offer price are
\* positive and the offer type is bulk.
Eligible ==
    /\ product.specialOffer.present
    /\ b > 0
    /\ p > 0
    /\ offerType = "bulk"

\* The flat-mode conditions: no offer, regular (or omitted) offer type, batch
\* size 0 or offer price 0.
FlatConditions ==
    \/ ~product.specialOffer.present
    \/ offerType \in {"regular", UndefinedArg}
    \/ b = 0
    \/ p = 0

IsFlatModeResult(res) ==
    /\ res.total = r * quantity
    /\ res.subtotal = r * quantity
    /\ res.discount = 0
    /\ res.itemsAtOfferPrice = 0
    /\ res.itemsAtRegularPrice = quantity
    /\ res.breakdown = <<>>

\* C1: for an eligible offer the units split into floor(q / b) * b units at
\* the offer price and q mod b at the regular price, the total charges the
\* offer price once per offer unit, subtotal = q * r and
\* discount = subtotal - total.
C1_BatchOfferArithmetic ==
    (Priced /\ Eligible) =>
        /\ pricing.itemsAtOfferPrice = (quantity \div b) * b
        /\ pricing.itemsAtRegularPrice = quantity % b
        /\ pricing.total = pricing.itemsAtOfferPrice * p + pricing.itemsAtRegularPrice * r
        /\ pricing.subtotal = quantity * r
        /\ pricing.discount = pricing.subtotal - pricing.total

C1_Witness ==
    /\ Priced /\ Eligible
    /\ quantity = 7 /\ b = 3 /\ p = 90 /\ r = 100
    /\ pricing.itemsAtOfferPrice = 6
    /\ pricing.total = 640

\* C2: under any flat-mode condition the result is total = subtotal =
\* price * q, discount 0, no unit at the offer price, q units at the regular
\* price and an empty breakdown.
C2_FlatModeEquivalence ==
    (Priced /\ FlatConditions) => IsFlatModeResult(pricing)

C2_Witness ==
    /\ Priced
    /\ offerType = "bulk" /\ product.specialOffer.present
    /\ b = 3 /\ p = 0 /\ r = 100 /\ quantity = 7
    /\ pricing.total = 700
    /\ pricing.breakdown = <<>>

\* C3: whenever the eligibility rule fails (no offer, batch size not positive,
\* offer price not positive, or offer type not bulk) the result is the
\* flat-mode result.
C3_EligibilityRule ==
    (Priced /\ ~Eligible) => IsFlatModeResult(pricing)

\* C4: offer units and regular units add up to the quantity; with a batch
\* size b > 0 the offer units are a multiple of b, and in batch mode the
\* regular units are in 0 .. b - 1.
C4_UnitPartition ==
    Priced =>
        /\ pricing.itemsAtOfferPrice + pricing.itemsAtRegularPrice = quantity
        /\ (b > 0 => pricing.itemsAtOfferPrice % b = 0)
        /\ (Eligible => (0 <= pricing.itemsAtRegularPrice /\ pricing.itemsAtRegularPrice < b))

\* No offer applies: a flat-mode condition holds or no unit is billed at the
\* offer price.
NoOfferApplies == FlatConditions \/ pricing.itemsAtOfferPrice = 0

\* C5: discount = subtotal - total in every result; with batch size > 0 and
\* offer price <= regular price the discount is not negative; the discount is
\* 0 whenever no offer applies.
C5_DiscountSign ==
    Priced =>
        /\ pricing.discount = pricing.subtotal - pricing.total
        /\ ((b > 0 /\ p <= r) => (pricing.discount >= 0 /\ pricing.total <= pricing.subtotal))
        /\ (NoOfferApplies => pricing.discount = 0)

C5_Witness ==
    /\ Priced /\ Eligible
    /\ p < r
    /\ pricing.itemsAtOfferPrice > 0
    /\ pricing.discount > 0

Scenario ==
    /\ Priced
    /\ product.price = Num(100)
    /\ product.specialOffer = Offer(Num(3), Num(250))
    /\ quantity = 7
    /\ offerType = "bulk"

SegmentTotal(res, type) ==
    IF \E i \in 1..Len(res.breakdown) : res.breakdown[i].type = type
    THEN LET i == CHOOSE i \in 1..Len(res.breakdown) : res.breakdown[i].type = type
         IN  res.breakdown[i].total
    ELSE 0

\* C6 as stated: price 100, offer {3, 250}, quantity 7, bulk gives 6 offer
\* units, 1 regular unit, offer segment 500, regular segment 100, total 600,
\* subtotal 700, discount 100.
C6_ScenarioAsStated ==
    Scenario =>
        /\ pricing.itemsAtOfferPrice = 6
        /\ pricing.itemsAtRegularPrice = 1
        /\ SegmentTotal(pricing, "offer") = 500
        /\ SegmentTotal(pricing, "regular") = 100
        /\ pricing.total = 600
        /\ pricing.subtotal = 700
        /\ pricing.discount = 100

\* C6 amended: price 100, offer {3, 250}, quantity 7, bulk gives 6 offer
\* units, 1 regular unit, offer segment 6 * 250 = 1500, regular segment 100,
\* total 1600, subtotal 700, discount -900.
C6_ScenarioAmended ==
    Scenario =>
        /\ pricing.itemsAtOfferPrice = 6
        /\ pricing.itemsAtRegularPrice = 1
        /\ SegmentTotal(pricing, "offer") = 1500
        /\ SegmentTotal(pricing, "regular") = 100
        /\ pricing.total = 1600
        /\ pricing.subtotal = 700
        /\ pricing.discount = 0 - 900

C6_Witness == Scenario /\ Len(pricing.breakdown) = 2

CartDone == cartResult # NoResult

\* Sum of a pricing field over the items of a cart result.
RECURSIVE SumPricing(_, _, _)
SumPricing(outItems, f, n) ==
    IF n = 0 THEN 0 ELSE SumPricing(outItems, f, n - 1) + outItems[n].pricing[f]

Permuted(items, perm) == [i \in 1..Len(items) |-> items[perm[i]]]

\* C7: the cart's subtotal, discount and total are the sums of the per-item
\* pricing fields it returns; they are the same for every permutation of the
\* input; the empty cart gives 0, 0, 0 and no items.
C7_CartAggregation ==
    CartDone =>
        /\ \A f \in {"subtotal", "discount", "total"} :
              cartResult[f] = SumPricing(cartResult.items, f, Len(cartResult.items))
        /\ \A perm \in Permutations(1..Len(cartItems)) :
              \A f \in {"subtotal", "discount", "total"} :
                  calculateCartTotal(Permuted(cartItems, perm))[f] = cartResult[f]
        /\ (cartItems = <<>> =>
                cartResult = [subtotal |-> 0, discount |-> 0, total |-> 0, items |-> <<>>])

C7_Witness ==
    /\ CartDone
    /\ Len(cartItems) = 3
    /\ cartItems[1] # cartItems[2]
    /\ cartItems[2] # cartItems[3]
    /\ cartResult.discount > 0
    /\ cartResult.total = cartResult.subtotal - cartResult.discount

C8_ItemResults ==
    /\ Len(cartResult.items) = Len(cartItems)
    /\ \A i \in 1..Len(cartItems) :
          LET in  == cartItems[i]
              out == cartResult.items[i]
          IN  /\ DOMAIN out = (DOMAIN in) \cup {"pricing"}
              /\ \A f \in DOMAIN in : out[f] = in[f]
              /\ out.pricing =
                    calculateOfferPricing(
                        [price |-> in.price, specialOffer |-> in.specialOffer],
                        in.quantity, in.offerType)

\* C8: the call leaves the input entries as they were, and returns one item
\* per entry, in order, with the entry's fields unchanged and a pricing field
\* that is the line pricing of the entry's product, quantity and offer type.
C8_CartPerItemResults ==
    [][cartResult' # NoResult => (cartItems' = cartItems /\ C8_ItemResults')]_vars

C8_Witness ==
    /\ CartDone
    /\ Len(cartItems) = 2
    /\ cartItems[1].offerType = "bulk"
    /\ cartItems[2].offerType = UndefinedArg
    /\ cartResult.items[1].pricing.itemsAtOfferPrice > 0
    /\ cartResult.items[2].pricing.itemsAtOfferPrice = 0
    /\ cartResult.items[1].id = cartItems[1].id

EntriesOfType(bd, type) == {i \in 1..Len(bd) : bd[i].type = type}

RECURSIVE SumEntries(_, _, _)
SumEntries(bd, f, n) ==
    IF n = 0 THEN 0 ELSE SumEntries(bd, f, n - 1) + bd[n][f]

\* C9: a breakdown has at most two entries, none with quantity 0, the offer
\* entry first; for an eligible offer the offer entry is there iff there are
\* offer units and carries their count and the offer price, the regular entry
\* is there iff there are regular units and carries their count and the
\* regular price, each entry's total is quantity * pricePerUnit, the
\* quantities add up to the requested quantity and the totals to the total.
C9_BreakdownShape ==
    Priced =>
        LET bd == pricing.breakdown IN
        /\ Len(bd) <= 2
        /\ \A i \in 1..Len(bd) : bd[i].quantity # 0
        /\ (Len(bd) = 2 => (bd[1].type = "offer" /\ bd[2].type = "regular"))
        /\ Eligible =>
              /\ (EntriesOfType(bd, "offer") # {}) <=> (pricing.itemsAtOfferPrice > 0)
              /\ (EntriesOfType(bd, "regular") # {}) <=> (pricing.itemsAtRegularPrice > 0)
              /\ Cardinality(EntriesOfType(bd, "offer")) <= 1
              /\ Cardinality(EntriesOfType(bd, "regular")) <= 1
              /\ \A i \in EntriesOfType(bd, "offer") :
                    bd[i].quantity = pricing.itemsAtOfferPrice /\ bd[i].pricePerUnit = p
              /\ \A i \in EntriesOfType(bd, "regular") :
                    bd[i].quantity = pricing.itemsAtRegularPrice /\ bd[i].pricePerUnit = r
              /\ \A i \in 1..Len(bd) : bd[i].total = bd[i].quantity * bd[i].pricePerUnit
              /\ SumEntries(bd, "quantity", Len(bd)) = quantity
              /\ SumEntries(bd, "total", Len(bd)) = pricing.total

C9_Witness ==
    /\ Priced /\ Eligible
    /\ Len(pricing.breakdown) = 2
    /\ pricing.breakdown[1].quantity = 4
    /\ pricing.breakdown[2].quantity = 1

\* C10: for q > 0 effectivePricePerUnit * q = total; for q = 0
\* effectivePricePerUnit is 0, never the outcome of a division by zero.
C10_EffectivePricePerUnit ==
    Priced =>
        LET e == pricing.effectivePricePerUnit IN
        /\ (quantity > 0 => (e.k = "fin" /\ e.num * quantity = pricing.total * e.den))
        /\ (quantity = 0 => e = Fin(0))

====
